---------------------------- MODULE Spec2Model ----------------------------
(***************************************************************************)
(* Model of koji_web_app_optimized.py: the option resolver (get_options),  *)
(* the parcel extractor (KojiWebExtractor.extract_data), the KML           *)
(* serializer (create_kml_from_geodataframe) and the Streamlit script      *)
(* main() with its session state.                                          *)
(*                                                                         *)
(* Column names are written in ASCII: "oaza" is the district column,       *)
(* "chome" the sub-district column, "koaza" the sub-sub-district column,   *)
(* "chiban" the lot-number column, "geometry" the geometry column.         *)
(*                                                                         *)
(* Coordinates are integers.  A polygon is an axis-aligned rectangle, a    *)
(* MultiPolygon a sequence of disjoint rectangles; centroids and the       *)
(* search square are computed exactly with a common denominator.           *)
(***************************************************************************)
EXTENDS Integers, Sequences, FiniteSets, TLC

VARIABLES
    gdf,          \* st.session_state.gdf: the loaded dataset, or NoDF
    target_gdf,   \* st.session_state.target_gdf, NoKey while the key is absent
    overlay_gdf,  \* st.session_state.overlay_gdf, NoKey while the key is absent
    file_name,    \* st.session_state.file_name, NoKey while the key is absent
    pass,         \* what the last run of main() did (observation only)
    call,         \* arguments of a direct call of one of the functions
    ret           \* what that call returned, NotCalled before it

vars == <<gdf, target_gdf, overlay_gdf, file_name, pass, call, ret>>

session == <<gdf, target_gdf, overlay_gdf, file_name, pass>>

-----------------------------------------------------------------------------
(* Bounds of the model.                                                    *)

\* Largest number of rows of a dataset.
MaxRows == 2

\* Largest search radius tried in direct calls of extract_data.
MaxRadius == 3

-----------------------------------------------------------------------------
(* Values.                                                                 *)

\* Python's None and pandas' missing value (None/NaN) of an attribute cell.
None == "<None>"

\* The "no selection" entry the select boxes put before the options.
Sentinel == "<sentaku nashi>"

\* Cell of a column the dataset does not have.
Absent == "<absent>"

\* A number held in a cell of a numeric column (the number 7, not the
\* string "7").
Number7 == "<number 7>"

\* isinstance(v, str)
IsStr(v) == v # None /\ v # Number7

\* Python's order on the attribute strings used: "" < "A" < "B".
Rank(v) == CASE v = "" -> 0 [] v = "A" -> 1 [] v = "B" -> 2 [] v = "C" -> 3
             [] OTHER -> 4

\* Truthy as "is not None".
TruthyNotNone(v) == v # None

\* bool(v) of an argument: None and the empty string are false.
Truthy(v) == v # None /\ v # ""

\* pandas' element-wise ==: a missing value equals nothing.
Eq(cell, v) == cell # None /\ v # None /\ cell = v

\* Series.notna()
NotNa(cell) == cell # None

Min2(a, b) == IF a <= b THEN a ELSE b

Max2(a, b) == IF a >= b THEN a ELSE b

Range(s) == {s[i] : i \in 1..Len(s)}

\* [x for x in s if Test(x)], order kept
RECURSIVE SelectRows(_, _)
SelectRows(s, keep) ==
    IF s = <<>> THEN <<>>
    ELSE IF keep[1] THEN <<Head(s)>> \o SelectRows(Tail(s), Tail(keep))
         ELSE SelectRows(Tail(s), Tail(keep))

-----------------------------------------------------------------------------
(* Geometry.                                                               *)

Rect(x1, y1, x2, y2) == [x1 |-> x1, y1 |-> y1, x2 |-> x2, y2 |-> y2]

\* A missing geometry (None).
NoGeom == [type |-> "None", parts |-> <<>>, den |-> 1]

\* Coordinates of a geometry are its parts' numbers divided by den.
Polygon(r) == [type |-> "Polygon", parts |-> <<r>>, den |-> 1]

MultiPolygon(rs) == [type |-> "MultiPolygon", parts |-> rs, den |-> 1]

Point(x, y) == [type |-> "Point", parts |-> <<Rect(x, y, x, y)>>, den |-> 1]

GeomNotNa(g) == g.type # "None"

RectArea(r) == (r.x2 - r.x1) * (r.y2 - r.y1)

RECURSIVE SumArea(_)
SumArea(parts) ==
    IF parts = <<>> THEN 0 ELSE RectArea(Head(parts)) + SumArea(Tail(parts))

RECURSIVE SumMomentX(_)
SumMomentX(parts) ==
    IF parts = <<>> THEN 0
    ELSE RectArea(Head(parts)) * (Head(parts).x1 + Head(parts).x2)
         + SumMomentX(Tail(parts))

RECURSIVE SumMomentY(_)
SumMomentY(parts) ==
    IF parts = <<>> THEN 0
    ELSE RectArea(Head(parts)) * (Head(parts).y1 + Head(parts).y2)
         + SumMomentY(Tail(parts))

\* GeoSeries.centroid of one geometry of the dataset (den = 1), then .x and
\* .y: the point (x/d, y/d); the centroid of a missing geometry has the
\* coordinates NaN.
Centroid(g) ==
    IF g.type = "None" THEN [nan |-> TRUE, x |-> 0, y |-> 0, d |-> 1]
    ELSE IF g.type = "Point"
         THEN [nan |-> FALSE, x |-> g.parts[1].x1, y |-> g.parts[1].y1, d |-> 1]
         ELSE [nan |-> FALSE, x |-> SumMomentX(g.parts),
               y |-> SumMomentY(g.parts), d |-> 2 * SumArea(g.parts)]


-----------------------------------------------------------------------------
(* Data frames.                                                            *)
(*                                                                         *)
(* A (Geo)DataFrame is [none, columns, crs, rows]: columns is the column   *)
(* order, crs says whether a CRS is set, rows the rows in order.  A row    *)
(* holds its index label idx, its cells, and src: the label of the dataset *)
(* row it was made from (the rows of an overlay are renumbered; src is     *)
(* kept only to state properties).                                         *)

\* A returned None in place of a data frame.
NoDF == [none |-> TRUE, columns |-> <<>>, crs |-> FALSE, rows |-> <<>>]

DataFrame(columns, crs, rows) ==
    [none |-> FALSE, columns |-> columns, crs |-> crs, rows |-> rows]

HasColumn(df, c) == c \in Range(df.columns)

Cell(row, c) ==
    CASE c = "oaza" -> row.oaza
      [] c = "chome" -> row.chome
      [] c = "koaza" -> row.koaza
      [] c = "chiban" -> row.chiban
      [] c = "geometry" -> row.geometry

\* The result of a function body: it raised err, or returned val.
Raise(err) == [raised |-> TRUE, err |-> err, val |-> <<>>]

Return(val) == [raised |-> FALSE, err |-> "", val |-> val]

-----------------------------------------------------------------------------
(* KojiWebExtractor.extract_data                                           *)

MsgError == "error: "

MsgNoMatch == "no matching parcel found"

MsgCounts == "target: n, neighbors: m"

Message(head, n, m, err) == [head |-> head, n |-> n, m |-> m, err |-> err]

\* The returned triple.
Triple(target, overlay, message) ==
    [target |-> target, overlay |-> overlay, message |-> message]

\* search_condition without the restriction to the sub-district.
search_condition_no_chome(df, oaza, chome, koaza, chiban) ==
    [i \in 1..Len(df.rows) |->
        /\ Eq(df.rows[i].oaza, oaza)
        /\ Eq(df.rows[i].chiban, chiban)
        /\ NotNa(df.rows[i].oaza)
        /\ NotNa(df.rows[i].chiban)
        /\ (Truthy(koaza) /\ koaza # Sentinel /\ HasColumn(df, "koaza")
              => Eq(df.rows[i].koaza, koaza) /\ NotNa(df.rows[i].koaza))]

\* Lines 144-155: the boolean mask over the rows of gdf.  The columns oaza
\* and chiban are read unconditionally (the caller has checked they exist).
search_condition(df, oaza, chome, koaza, chiban) ==
    [i \in 1..Len(df.rows) |->
        /\ Eq(df.rows[i].oaza, oaza)
        /\ Eq(df.rows[i].chiban, chiban)
        /\ NotNa(df.rows[i].oaza)
        /\ NotNa(df.rows[i].chiban)
        /\ (Truthy(chome) /\ chome # Sentinel /\ HasColumn(df, "chome")
              => Eq(df.rows[i].chome, chome) /\ NotNa(df.rows[i].chome))
        /\ (Truthy(koaza) /\ koaza # Sentinel /\ HasColumn(df, "koaza")
              => Eq(df.rows[i].koaza, koaza) /\ NotNa(df.rows[i].koaza))]

\* Lines 163-170: the columns of the target subset, in order.
existing_columns(df) ==
    <<"oaza">>
    \o (IF HasColumn(df, "chome") THEN <<"chome">> ELSE <<>>)
    \o (IF HasColumn(df, "koaza") THEN <<"koaza">> ELSE <<>>)
    \o <<"chiban", "geometry">>

\* Lines 200-208: the columns of the valid universe, in order.
existing_overlay_columns(df) ==
    (IF HasColumn(df, "oaza") THEN <<"oaza">> ELSE <<>>)
    \o <<"chiban">>
    \o (IF HasColumn(df, "chome") THEN <<"chome">> ELSE <<>>)
    \o (IF HasColumn(df, "koaza") THEN <<"koaza">> ELSE <<>>)
    \o <<"geometry">>

\* four_points with the points built from (lon, lat) instead of (lat, lon).
four_points_lonlat(c, range_m) ==
    LET r == range_m * c.d
        points == << [lon |-> c.y + r, lat |-> c.x + r],
                     [lon |-> c.y - r, lat |-> c.x - r],
                     [lon |-> c.y + r, lat |-> c.x - r],
                     [lon |-> c.y - r, lat |-> c.x + r] >>
    IN  [i \in 1..4 |-> <<points[i].lon, points[i].lat>>]

\* Lines 183-190: the four corner points around the centre c = (x/d, y/d),
\* as (x, y) numerators over d.  The frame's columns are named lon and lat
\* and hold y and x; Point(xy) is built from (lat, lon).
four_points(c, range_m) ==
    LET r == range_m * c.d
        points == << [lon |-> c.y + r, lat |-> c.x + r],
                     [lon |-> c.y - r, lat |-> c.x - r],
                     [lon |-> c.y + r, lat |-> c.x - r],
                     [lon |-> c.y - r, lat |-> c.x + r] >>
    IN  [i \in 1..4 |-> <<points[i].lat, points[i].lon>>]

RECURSIVE MinOf(_)
MinOf(s) == IF Len(s) = 1 THEN s[1] ELSE Min2(s[1], MinOf(Tail(s)))

RECURSIVE MaxOf(_)
MaxOf(s) == IF Len(s) = 1 THEN s[1] ELSE Max2(s[1], MaxOf(Tail(s)))

\* Line 194: dissolve().convex_hull of the four corners of an axis-aligned
\* square is that square; numerators over d.
convex_hull(pts, d) ==
    LET xs == [i \in 1..Len(pts) |-> pts[i][1]]
        ys == [i \in 1..Len(pts) |-> pts[i][2]]
    IN  [x1 |-> MinOf(xs), y1 |-> MinOf(ys),
         x2 |-> MaxOf(xs), y2 |-> MaxOf(ys), d |-> d]

\* One rectangle of a dataset geometry cut to the square, numerators over d.
ClipPart(part, sq) ==
    Rect(Max2(part.x1 * sq.d, sq.x1), Max2(part.y1 * sq.d, sq.y1),
         Min2(part.x2 * sq.d, sq.x2), Min2(part.y2 * sq.d, sq.y2))

\* ClipParts keeping the parts that only touch the square.
RECURSIVE ClipPartsTouching(_, _)
ClipPartsTouching(parts, sq) ==
    IF parts = <<>> THEN <<>>
    ELSE LET c == ClipPart(Head(parts), sq)
         IN  (IF c.x1 <= c.x2 /\ c.y1 <= c.y2 THEN <<c>> ELSE <<>>)
             \o ClipPartsTouching(Tail(parts), sq)

\* The parts of a geometry that share area with the square, cut to it.
RECURSIVE ClipParts(_, _)
ClipParts(parts, sq) ==
    IF parts = <<>> THEN <<>>
    ELSE LET c == ClipPart(Head(parts), sq)
         IN  (IF c.x1 < c.x2 /\ c.y1 < c.y2 THEN <<c>> ELSE <<>>)
             \o ClipParts(Tail(parts), sq)

\* The intersection of a dataset geometry with the square: the parts that
\* share area with it, cut to it.  Contact along an edge or in a corner
\* only leaves no polygon and so no row (overlay keeps polygons only).
Intersection(g, sq) ==
    LET ps == ClipParts(g.parts, sq)
    IN  [type |-> IF Len(ps) = 1 THEN "Polygon" ELSE "MultiPolygon",
         parts |-> ps, den |-> sq.d]

\* Line 211: df1.overlay(df2, how='intersection') with the one-row frame
\* df1 holding the square: one row per row of df2 whose geometry shares
\* area with the square, in df2's order, with df2's attributes, renumbered.
RECURSIVE overlay(_, _, _)
overlay(sq, rows, n) ==
    IF rows = <<>> THEN <<>>
    ELSE LET g == Intersection(Head(rows).geometry, sq)
         IN  IF g.parts = <<>> THEN overlay(sq, Tail(rows), n)
             ELSE <<[Head(rows) EXCEPT !.idx = n, !.geometry = g]>>
                  \o overlay(sq, Tail(rows), n + 1)

\* Lines 143-213: the body of the try block.  lib says how the installed
\* geometry library behaves where its versions differ: set_crs(None) raises
\* or not, and a square built from NaN coordinates makes the overlay raise
\* or come out empty.
extract_body(df, oaza, chome, koaza, chiban, range_m, lib) ==
    IF df.none THEN Raise("TypeError")
    ELSE IF ~HasColumn(df, "oaza") \/ ~HasColumn(df, "chiban")
    THEN Raise("KeyError")
    ELSE
    LET mask == search_condition(df, oaza, chome, koaza, chiban)
        matched == SelectRows(df.rows, mask)
    IN  IF matched = <<>>
        THEN Return(Triple(NoDF, NoDF, Message(MsgNoMatch, 0, 0, "")))
        ELSE
        LET df_summary == DataFrame(existing_columns(df), df.crs, matched)
            cen == Centroid(df_summary.rows[1].geometry)
            valid_mask == [i \in 1..Len(df.rows) |->
                              NotNa(df.rows[i].chiban)
                              /\ GeomNotNa(df.rows[i].geometry)]
            valid_data == SelectRows(df.rows, valid_mask)
        IN  IF ~df.crs /\ lib.set_crs_none_raises THEN Raise("ValueError")
            ELSE IF cen.nan
            THEN IF lib.nan_square_raises THEN Raise("GEOSException")
                 ELSE Return(Triple(df_summary,
                        DataFrame(existing_overlay_columns(df), df.crs, <<>>),
                        Message(MsgCounts, Len(matched), 0, "")))
            ELSE
            LET sq == convex_hull(four_points(cen, range_m), cen.d)
                overlay_rows == overlay(sq, valid_data, 0)
            IN  Return(Triple(df_summary,
                   DataFrame(existing_overlay_columns(df), df.crs, overlay_rows),
                   Message(MsgCounts, Len(matched), Len(overlay_rows), "")))

\* Lines 215-216: an exception e raised in the body is answered by the
\* triple (None, None, error message of e).
except_Exception(body) ==
    IF body.raised
    THEN Return(Triple(NoDF, NoDF, Message(MsgError, 0, 0, body.err)))
    ELSE body

\* extract_data without the except clause.
extract_data_no_except(df, oaza, chome, koaza, chiban, range_m, lib) ==
    extract_body(df, oaza, chome, koaza, chiban, range_m, lib)

\* Lines 142, 215-216: try: ... except Exception as e: return None, None,
\* the error message.
extract_data(df, oaza, chome, koaza, chiban, range_m, lib) ==
    except_Exception(extract_body(df, oaza, chome, koaza, chiban, range_m, lib))

-----------------------------------------------------------------------------
(* Inputs: the datasets and arguments the functions are applied to.        *)

\* The cells of one row before it is put into a dataset.
RowOf(oaza, chome, koaza, chiban, geometry) ==
    [oaza |-> oaza, chome |-> chome, koaza |-> koaza, chiban |-> chiban,
     geometry |-> geometry]

AllColumns == <<"oaza", "chome", "koaza", "chiban", "geometry">>

\* The column order of a file that lacks the columns in missing.
ColumnsWithout(missing) ==
    SelectRows(AllColumns, [i \in 1..Len(AllColumns) |-> AllColumns[i] \notin missing])

\* A dataset as gpd.read_file returns it: the rows numbered from 0, and no
\* cell in a column the file does not have.
Dataset(columns, crs, cells) ==
    DataFrame(columns, crs,
        [i \in 1..Len(cells) |->
            [idx |-> i - 1, src |-> i - 1,
             oaza |-> IF "oaza" \in Range(columns) THEN cells[i].oaza ELSE Absent,
             chome |-> IF "chome" \in Range(columns) THEN cells[i].chome ELSE Absent,
             koaza |-> IF "koaza" \in Range(columns) THEN cells[i].koaza ELSE Absent,
             chiban |-> IF "chiban" \in Range(columns) THEN cells[i].chiban ELSE Absent,
             geometry |-> cells[i].geometry]])

\* Every sequence of at most n members of menu.
SeqsUpTo(menu, n) == UNION {[1..k -> menu] : k \in 0..n}

Datasets(columnMenu, crsMenu, rowMenu) ==
    {Dataset(ColumnsWithout(m), crs, cells) :
        m \in columnMenu, crs \in crsMenu, cells \in SeqsUpTo(rowMenu, MaxRows)}

\* Parcels on a grid of squares of side 2u: one at the origin, one two
\* squares to the east, one two squares to the north, and a parcel of two
\* separate squares west of the origin whose centroid lies in the gap
\* between them.
GeomA(u) == Polygon(Rect(0, 0, 2 * u, 2 * u))

GeomEast(u) == Polygon(Rect(4 * u, 0, 6 * u, 2 * u))

GeomNorth(u) == Polygon(Rect(0, 4 * u, 2 * u, 6 * u))

GeomSplit(u) ==
    MultiPolygon(<<Rect(-6 * u, 0, -4 * u, 2 * u), Rect(-2 * u, 0, 0, 2 * u)>>)

LibMenu == [set_crs_none_raises : BOOLEAN, nan_square_raises : BOOLEAN]

NotCalled == [done |-> FALSE]

\* What a call did: r.raised says whether an exception reached the caller,
\* out is the returned value, lib the library behaviour it ran with.
Called(r, lib) ==
    [done |-> TRUE, raised |-> r.raised, err |-> r.err, out |-> r.val,
     lib |-> lib]

\* The session variables while a function is called directly.
NoKey == [none |-> TRUE, key |-> FALSE]

\* No run of main() yet.
NoPass ==
    [ran |-> FALSE, load |-> "none", extract |-> "none", fault |-> "",
     selected_oaza |-> None, shown |-> FALSE,
     uploaded_file |-> [kind |-> "none", readable |-> FALSE, df |-> NoDF]]

SessionIdle ==
    /\ gdf = NoDF
    /\ target_gdf = NoKey
    /\ overlay_gdf = NoKey
    /\ file_name = NoKey
    /\ pass = NoPass

LibDefault == [set_crs_none_raises |-> TRUE, nan_square_raises |-> TRUE]

\* extract_data(call.df, ...) is called once; the library behaviour is the
\* environment's.
CallExtract ==
    /\ call.fn = "extract_data"
    /\ ~ret.done
    /\ \E lib \in LibMenu :
          ret' = Called(extract_data(call.df, call.oaza, call.chome, call.koaza,
                                     call.chiban, call.range_m, lib), lib)
    /\ UNCHANGED <<call, session>>

ExtractCall(df, oaza, chome, koaza, chiban, range_m) ==
    [fn |-> "extract_data", df |-> df, oaza |-> oaza, chome |-> chome,
     koaza |-> koaza, chiban |-> chiban, range_m |-> range_m]

\* Rows for the geometry of the extraction: a row that matches ("A",
\* "1174"), a row of another district, a row without lot number, each with
\* every geometry of the menu or none.
GeoRowMenu ==
    {RowOf(k[1], None, None, k[2], g) :
        k \in {<<"A", "1174">>, <<"B", "1174">>, <<"A", None>>},
        g \in {NoGeom, GeomA(1), GeomEast(1), GeomNorth(1), GeomSplit(1)}}

InitExtract ==
    /\ SessionIdle
    /\ call \in {ExtractCall(df, "A", None, None, "1174", r) :
                    df \in Datasets({{}}, {TRUE}, GeoRowMenu),
                    r \in 1..MaxRadius}
    /\ ret = NotCalled

SpecExtract == InitExtract /\ [][CallExtract]_vars

-----------------------------------------------------------------------------
(* Properties of extract_data's neighbour subset (SpecExtract).            *)

\* The call returned a target subset.
ExtractSucceeded ==
    /\ call.fn = "extract_data"
    /\ ret.done
    /\ ~ret.raised
    /\ ~ret.out.target.none

\* The rectangle part and the square of half-width r around c = (x/d, y/d)
\* have a region of positive area in common.
SharesArea(part, c, r) ==
    /\ part.x1 * c.d < c.x + r * c.d
    /\ part.x2 * c.d > c.x - r * c.d
    /\ part.y1 * c.d < c.y + r * c.d
    /\ part.y2 * c.d > c.y - r * c.d

\* The rectangle part and the closed square have at least a point in common.
Intersects(part, c, r) ==
    /\ part.x1 * c.d <= c.x + r * c.d
    /\ part.x2 * c.d >= c.x - r * c.d
    /\ part.y1 * c.d <= c.y + r * c.d
    /\ part.y2 * c.d >= c.y - r * c.d

\* The centre of the search: the centroid of the first target row.
FirstCentroid == Centroid(ret.out.target.rows[1].geometry)

\* Row i of the dataset belongs to the valid universe and its geometry
\* shares area with the square around the first target row's centroid.
NearByArea(i) ==
    LET row == call.df.rows[i]
    IN  /\ NotNa(row.chiban)
        /\ GeomNotNa(row.geometry)
        /\ ~FirstCentroid.nan
        /\ \E k \in 1..Len(row.geometry.parts) :
              SharesArea(row.geometry.parts[k], FirstCentroid, call.range_m)

\* The same with "intersects" read as having a point in common.
NearByContact(i) ==
    LET row == call.df.rows[i]
    IN  /\ NotNa(row.chiban)
        /\ GeomNotNa(row.geometry)
        /\ ~FirstCentroid.nan
        /\ \E k \in 1..Len(row.geometry.parts) :
              Intersects(row.geometry.parts[k], FirstCentroid, call.range_m)

\* The rows of the neighbour subset made from row i of the dataset.
NeighborsOf(i) ==
    {j \in 1..Len(ret.out.overlay.rows) :
        ret.out.overlay.rows[j].src = call.df.rows[i].idx}

MessageReportsCounts ==
    /\ ret.out.message.head = MsgCounts
    /\ ret.out.message.n = Len(ret.out.target.rows)
    /\ ret.out.message.m = Len(ret.out.overlay.rows)

\* C10 as stated: after a successful extract_data the neighbour subset has
\* exactly one row for each dataset row with lot number and geometry whose
\* geometry intersects (has a point in common with) the square around the
\* first target row's centroid, no other row, and the message reports the
\* two row counts.  Violated: a parcel that only touches the square on an
\* edge gets no row.
C10_AsStated ==
    ExtractSucceeded =>
        /\ \A i \in 1..Len(call.df.rows) :
              Cardinality(NeighborsOf(i)) = IF NearByContact(i) THEN 1 ELSE 0
        /\ MessageReportsCounts

\* C10 amended: after a successful extract_data the neighbour subset has
\* exactly one row for each dataset row with lot number and geometry whose
\* geometry shares a region of positive area with the square around the
\* FIRST target row's centroid, no row for any other dataset row, and the
\* message reports the row counts of both subsets.
C10_NeighborsByArea ==
    ExtractSucceeded =>
        /\ \A i \in 1..Len(call.df.rows) :
              Cardinality(NeighborsOf(i)) = IF NearByArea(i) THEN 1 ELSE 0
        /\ \A j \in 1..Len(ret.out.overlay.rows) :
              \E i \in 1..Len(call.df.rows) : j \in NeighborsOf(i)
        /\ MessageReportsCounts

\* C10 witness: two rows match, their centroids differ, the second target
\* row lies outside the square around the first one's centroid and gets no
\* neighbour row, while a non-target row inside the square gets one.
C10_Witness ==
    /\ ExtractSucceeded
    /\ Len(ret.out.target.rows) = MaxRows
    /\ ~FirstCentroid.nan
    /\ Centroid(ret.out.target.rows[MaxRows].geometry) # FirstCentroid
    /\ \E i \in 1..Len(call.df.rows) :
          /\ call.df.rows[i].idx = ret.out.target.rows[MaxRows].idx
          /\ NeighborsOf(i) = {}
    /\ ret.out.overlay.rows # <<>>

\* Neighbour row n carries target row t's attributes and a non-empty part
\* of its geometry.
Carries(n, t) ==
    /\ n.src = t.idx
    /\ n.oaza = t.oaza /\ n.chome = t.chome
    /\ n.koaza = t.koaza /\ n.chiban = t.chiban
    /\ n.geometry.parts # <<>>
    /\ \A k \in 1..Len(n.geometry.parts) :
          \E m \in 1..Len(t.geometry.parts) :
             LET c == n.geometry.parts[k]
                 q == t.geometry.parts[m]
                 d == n.geometry.den
             IN  /\ q.x1 * d <= c.x1 /\ c.x2 <= q.x2 * d
                 /\ q.y1 * d <= c.y1 /\ c.y2 <= q.y2 * d
                 /\ c.x1 < c.x2 /\ c.y1 < c.y2

Represented(t) ==
    \E j \in 1..Len(ret.out.overlay.rows) : Carries(ret.out.overlay.rows[j], t)

\* The centroid c = (x/d, y/d) lies in geometry g (boundary included).
CentroidInside(c, g) ==
    /\ ~c.nan
    /\ \E k \in 1..Len(g.parts) :
          /\ g.parts[k].x1 * c.d <= c.x /\ c.x <= g.parts[k].x2 * c.d
          /\ g.parts[k].y1 * c.d <= c.y /\ c.y <= g.parts[k].y2 * c.d

\* C1 as stated: whenever extract_data with radius > 0 returns a target
\* subset, every target row is represented in the neighbour subset by a row
\* with its attributes and part of its geometry.  Violated: a second
\* matching row far from the first one, a row whose centroid lies outside
\* its own polygon, a target row without geometry.
C1_AsStated ==
    ExtractSucceeded /\ call.range_m > 0 =>
        \A i \in 1..Len(ret.out.target.rows) :
            Represented(ret.out.target.rows[i])

\* C1 amended: whenever extract_data with radius > 0 returns a target
\* subset, every target row whose geometry shares area with the square
\* around the FIRST target row's centroid is represented in the neighbour
\* subset, and the first target row is represented whenever its centroid
\* lies in its own geometry.
C1_TargetsInSquareRepresented ==
    ExtractSucceeded /\ call.range_m > 0 =>
        /\ \A i \in 1..Len(ret.out.target.rows) :
              LET t == ret.out.target.rows[i]
              IN  (/\ ~FirstCentroid.nan
                   /\ \E k \in 1..Len(t.geometry.parts) :
                         SharesArea(t.geometry.parts[k], FirstCentroid,
                                    call.range_m))
                  => Represented(t)
        /\ CentroidInside(FirstCentroid, ret.out.target.rows[1].geometry)
              => Represented(ret.out.target.rows[1])

\* C1 witness: several rows match; the first lies around its own centroid
\* and is represented, another target row is not.
C1_Witness ==
    /\ ExtractSucceeded
    /\ call.range_m > 0
    /\ Len(ret.out.target.rows) > 1
    /\ CentroidInside(FirstCentroid, ret.out.target.rows[1].geometry)
    /\ Represented(ret.out.target.rows[1])
    /\ \E i \in 2..Len(ret.out.target.rows) :
          /\ GeomNotNa(ret.out.target.rows[i].geometry)
          /\ ~Represented(ret.out.target.rows[i])

-----------------------------------------------------------------------------
(* Properties of extract_data's target subset and outcomes (SpecTarget).   *)

\* Rows for the attributes of the extraction: rows of district "A" and lot
\* "1174" in every sub-district and sub-sub-district, one of them without
\* geometry, and rows of another or no district and without lot number.
AttrRowMenu ==
    {RowOf("A", c, k, "1174", GeomA(1)) : c \in {None, "A", "B"}, k \in {None, "A"}}
    \cup {RowOf("A", "A", "A", "1174", NoGeom),
          RowOf("B", "A", "A", "1174", GeomEast(1)),
          RowOf(None, "A", "A", "1174", GeomA(1)),
          RowOf("A", "A", "A", None, GeomA(1))}

ColumnMenu == {{}, {"chome"}, {"koaza"}, {"chome", "koaza"}, {"oaza"}, {"chiban"}}

InitTarget ==
    /\ SessionIdle
    /\ call \in {ExtractCall(df, oaza, chome, koaza, "1174", 1) :
                    df \in Datasets(ColumnMenu, BOOLEAN, AttrRowMenu),
                    oaza \in {"A", None},
                    chome \in {None, "", Sentinel, "A"},
                    koaza \in {None, Sentinel, "A"}}
    /\ ret = NotCalled

SpecTarget == InitTarget /\ [][CallExtract]_vars

\* The outcome (None, None, message) with the given head.
IsFailure(out, head) ==
    /\ out.target.none
    /\ out.overlay.none
    /\ out.message.head = head

\* v is a concrete selection: supplied, non-empty, not the "no selection"
\* entry.
Concrete(v) == v # None /\ v # "" /\ v # Sentinel

\* The target predicate of the specification on row i of the dataset.
IsTarget(i) ==
    LET row == call.df.rows[i]
    IN  /\ row.oaza # None /\ row.oaza = call.oaza
        /\ row.chiban # None /\ row.chiban = call.chiban
        /\ (Concrete(call.chome) /\ HasColumn(call.df, "chome")
              => row.chome # None /\ row.chome = call.chome)
        /\ (Concrete(call.koaza) /\ HasColumn(call.df, "koaza")
              => row.koaza # None /\ row.koaza = call.koaza)

\* The dataset has the two columns the target predicate always reads.
HasKeyColumns == HasColumn(call.df, "oaza") /\ HasColumn(call.df, "chiban")

\* C3: extract_data never raises to its caller; it returns a triple, and
\* whenever a step of its body fails (in particular when the district or
\* lot-number column is missing) the triple is (None, None, message) with
\* the message starting with the error prefix.
C3_NeverRaises ==
    call.fn = "extract_data" /\ ret.done =>
        /\ ~ret.raised
        /\ DOMAIN ret.out = {"target", "overlay", "message"}
        /\ (~HasKeyColumns => IsFailure(ret.out, MsgError))
        /\ (extract_body(call.df, call.oaza, call.chome, call.koaza,
                         call.chiban, call.range_m, ret.lib).raised
              => IsFailure(ret.out, MsgError) /\ ret.out.message.err # "")

\* C3 witness: a call on a dataset without the district column, and a call
\* whose first target row has no geometry, both answered by the error
\* triple.
C3_Witness ==
    /\ call.fn = "extract_data" /\ ret.done /\ ~ret.raised
    /\ IsFailure(ret.out, MsgError)
    /\ \/ ~HasColumn(call.df, "oaza")
       \/ /\ HasKeyColumns
          /\ \E i \in 1..Len(call.df.rows) :
                IsTarget(i) /\ ~GeomNotNa(call.df.rows[i].geometry)

\* C4: extract_data returns (None, None, no-match message) exactly when
\* the target predicate can be evaluated and no dataset row satisfies it;
\* that message does not carry the error prefix; in every other non-error
\* case both subsets are returned and the target subset is non-empty.
C4_NoMatchExactly ==
    call.fn = "extract_data" /\ ret.done /\ ~ret.raised =>
        /\ IsFailure(ret.out, MsgNoMatch)
              <=> (HasKeyColumns /\ \A i \in 1..Len(call.df.rows) : ~IsTarget(i))
        /\ MsgNoMatch # MsgError
        /\ (~IsFailure(ret.out, MsgNoMatch) /\ ~IsFailure(ret.out, MsgError)
              => /\ ~ret.out.target.none
                 /\ ~ret.out.overlay.none
                 /\ ret.out.target.rows # <<>>)

\* C4 witness: the dataset has rows of the district and lot number, but
\* none in the selected sub-district, and the call reports no match.
C4_Witness ==
    /\ call.fn = "extract_data" /\ ret.done /\ ~ret.raised
    /\ IsFailure(ret.out, MsgNoMatch)
    /\ Concrete(call.chome)
    /\ \E i \in 1..Len(call.df.rows) :
          call.df.rows[i].oaza = call.oaza /\ call.df.rows[i].chiban = call.chiban

\* C9: a returned target subset consists of exactly the dataset rows,
\* in dataset order and unchanged, whose district and lot number are
\* non-null and equal the given ones, restricted by sub-district equality
\* iff a concrete sub-district was supplied and the dataset has that
\* column, and likewise for the sub-sub-district.
C9_TargetRowsExact ==
    ExtractSucceeded =>
        LET t == ret.out.target.rows
        IN  /\ {t[j].idx : j \in 1..Len(t)}
                 = {call.df.rows[i].idx : i \in {k \in 1..Len(call.df.rows) : IsTarget(k)}}
            /\ \A j \in 1..Len(t) : t[j] = call.df.rows[t[j].idx + 1]
            /\ \A j \in 1..Len(t) - 1 : t[j].idx < t[j + 1].idx

\* C9 witness: the "no selection" entry is passed for the sub-district
\* and the target subset holds rows of two different sub-districts.
C9_Witness ==
    /\ ExtractSucceeded
    /\ call.chome = Sentinel
    /\ HasColumn(call.df, "chome")
    /\ \E i, j \in 1..Len(ret.out.target.rows) :
          ret.out.target.rows[i].chome # ret.out.target.rows[j].chome

-----------------------------------------------------------------------------
(* get_options                                                             *)

\* A returned list, or None.
NoList == [none |-> TRUE, values |-> <<>>]

List(values) == [none |-> FALSE, values |-> values]

\* The cells of column c, row by row.
Column(rows, c) == [i \in 1..Len(rows) |-> Cell(rows[i], c)]

\* unique left out: the values as they stand.
unique_keep_all(values) == values

\* Series.unique(): the distinct values in order of first appearance.
RECURSIVE unique(_)
unique(values) ==
    IF values = <<>> THEN <<>>
    ELSE LET rest == unique(Tail(values))
         IN  <<Head(values)>>
             \o SelectRows(rest, [i \in 1..Len(rest) |-> rest[i] # Head(values)])

\* v put into the ascending list s, after the members equal to it.
RECURSIVE Insert(_, _)
Insert(v, s) ==
    IF s = <<>> THEN <<v>>
    ELSE IF Rank(v) < Rank(Head(s)) THEN <<v>> \o s
         ELSE <<Head(s)>> \o Insert(v, Tail(s))

\* sorted(values): ascending in Python's string order, stable.
RECURSIVE sorted(_)
sorted(values) ==
    IF values = <<>> THEN <<>>
    ELSE Insert(values[Len(values)], sorted(SubSeq(values, 1, Len(values) - 1)))

\* gdf[column].notna() on one row: the attribute columns hold strings or
\* None, the geometry column geometries or None.
NotNaIn(row, column) ==
    IF column = "geometry" THEN GeomNotNa(row.geometry)
    ELSE NotNa(Cell(row, column))

\* Line 235: sorted compares the values with <.  Strings are ordered, and
\* so are numbers; geometries are not, nor is a string with a number, and
\* comparing two of them raises TypeError.
Orderable(column, values) ==
    IF column = "geometry" THEN Len(values) <= 1
    ELSE \A i, j \in 1..Len(values) : IsStr(values[i]) <=> IsStr(values[j])

\* Lines 221-235: the body of the try block.
get_options_body(df, column, parent_column, parent_value) ==
    IF ~HasColumn(df, column) THEN Return(NoList)
    ELSE
    LET notna == SelectRows(df.rows,
                    [i \in 1..Len(df.rows) |-> NotNaIn(df.rows[i], column)])
        filtered_gdf ==
            IF Truthy(parent_column) /\ Truthy(parent_value)
               /\ HasColumn(df, parent_column)
            THEN SelectRows(notna,
                    [i \in 1..Len(notna) |->
                        /\ Eq(Cell(notna[i], parent_column), parent_value)
                        /\ NotNa(Cell(notna[i], parent_column))])
            ELSE notna
    IN  IF Len(filtered_gdf) = 0 THEN Return(NoList)
        ELSE LET values == unique(Column(filtered_gdf, column))
             IN  IF Orderable(column, values) THEN Return(List(sorted(values)))
                 ELSE Raise("TypeError")

\* Lines 237-239: an exception raised in the body is reported and None
\* returned.
except_return_None(body) == IF body.raised THEN NoList ELSE body.val

\* Lines 218-239.
get_options(df, column, parent_column, parent_value) ==
    except_return_None(get_options_body(df, column, parent_column, parent_value))

OptionsCall(df, column, parent_column, parent_value) ==
    [fn |-> "get_options", df |-> df, column |-> column,
     parent_column |-> parent_column, parent_value |-> parent_value]

\* get_options(call.df, ...) is called once.
CallOptions ==
    /\ call.fn = "get_options"
    /\ ~ret.done
    /\ ret' = Called(Return(get_options(call.df, call.column, call.parent_column,
                                        call.parent_value)), LibDefault)
    /\ UNCHANGED <<call, session>>

\* Rows for the options: every pairing of a district and a sub-district
\* value, each missing, empty or a name, on one parcel; and a row on
\* another parcel and one without geometry.
OptionRowMenu ==
    {RowOf(o, c, None, "1174", GeomA(1)) :
        o \in {None, "", "A", "B"}, c \in {None, "", "A", "B"}}
    \cup {RowOf("A", "A", None, "1174", GeomEast(1)),
          RowOf("A", "B", None, "1174", NoGeom)}

\* The parent constraints of a call: none, or the district column with a
\* value that is missing, empty or a name.
ParentMenu == {<<None, None>>, <<"oaza", None>>, <<"oaza", "">>, <<"oaza", "A">>}

InitOptions ==
    /\ SessionIdle
    /\ call \in {OptionsCall(df, column, parent[1], parent[2]) :
                    df \in Datasets({{}, {"chome"}, {"oaza"}}, {TRUE}, OptionRowMenu),
                    column \in {"chome", "oaza", "geometry"},
                    parent \in ParentMenu}
    /\ ret = NotCalled

SpecOptions == InitOptions /\ [][CallOptions]_vars

\* The non-null values of the asked column in the dataset.
ValuesOfColumn ==
    {Cell(call.df.rows[i], call.column) :
        i \in {k \in 1..Len(call.df.rows) : NotNaIn(call.df.rows[k], call.column)}}

\* get_options was called without parent constraint.
OptionsWithoutParent ==
    /\ call.fn = "get_options" /\ ret.done
    /\ call.parent_column = None /\ call.parent_value = None

\* The answer is None exactly when the asked column is no column of the
\* dataset or holds no non-null value, and else a strictly ascending,
\* duplicate-free list of exactly the non-null values of the column.
SortedDistinctValues ==
    LET v == ret.out.values
    IN  /\ ret.out.none <=> (~HasColumn(call.df, call.column) \/ ValuesOfColumn = {})
        /\ ~ret.out.none =>
              /\ \A i \in 1..Len(v) - 1 : Rank(v[i]) < Rank(v[i + 1])
              /\ \A i, j \in 1..Len(v) : i # j => v[i] # v[j]
              /\ Range(v) = ValuesOfColumn

\* C6 as stated: for every dataset D and every column C, get_options(D, C)
\* without parent constraint returns None or a strictly ascending,
\* duplicate-free list holding exactly the distinct non-null values of C
\* in D; it returns None exactly when C is no column of D or no row has a
\* non-null value of C.  Violated for the geometry column.
C6_AsStated == OptionsWithoutParent => SortedDistinctValues

\* C6 amended: the same for every attribute column C, whose values are
\* strings.
C6_SortedDistinctValues ==
    OptionsWithoutParent /\ call.column # "geometry" => SortedDistinctValues

\* C6 witness: two values of an attribute column are listed in ascending
\* order although the larger one comes first in the dataset.
C6_Witness ==
    /\ OptionsWithoutParent
    /\ call.column # "geometry"
    /\ ~ret.out.none
    /\ Len(ret.out.values) = 2
    /\ Cell(call.df.rows[1], call.column) = ret.out.values[2]

\* The call supplies a parent constraint.
ParentSupplied == call.parent_column # None /\ call.parent_value # None

\* C7 as stated: with a parent constraint supplied, every value returned is
\* the value of at least one row whose parent column is non-null and equals
\* the parent value, for every parent value and parent column name.
\* Violated: an empty parent value, or a parent column the dataset lacks,
\* switches the filter off.
C7_AsStated ==
    call.fn = "get_options" /\ ret.done /\ ParentSupplied /\ ~ret.out.none =>
        \A k \in 1..Len(ret.out.values) :
            \E i \in 1..Len(call.df.rows) :
                /\ Cell(call.df.rows[i], call.column) = ret.out.values[k]
                /\ HasColumn(call.df, call.parent_column)
                /\ Cell(call.df.rows[i], call.parent_column) # None
                /\ Cell(call.df.rows[i], call.parent_column) = call.parent_value

-----------------------------------------------------------------------------
(* KojiWebExtractor.create_kml_from_geodataframe                           *)

\* A returned None in place of the KML text.
NoKml == [none |-> TRUE, name |-> "", placemarks |-> <<>>]

\* Line 70: a vertex (x/den, y/den) transformed to WGS84 by to_crs; the
\* transformed coordinates are kept as the image of the source vertex.
ToWgs84(x, y, den) == [epsg |-> 4326, of |-> <<x, y, den>>]

\* polygon.exterior.coords of a rectangle: its closed ring of five
\* vertices, each transformed.
ExteriorCoords(r, den) ==
    << ToWgs84(r.x1, r.y1, den), ToWgs84(r.x2, r.y1, den),
       ToWgs84(r.x2, r.y2, den), ToWgs84(r.x1, r.y2, den),
       ToWgs84(r.x1, r.y1, den) >>

\* Lines 135-138: one "x,y,0" token per vertex of the exterior ring.
CoordinateTokens(r, den) ==
    LET coords == ExteriorCoords(r, den)
    IN  [i \in 1..Len(coords) |-> [xy |-> coords[i], z |-> 0]]

\* The vertices of the polygon carry a third coordinate.
HasZ(r) == "z" \in DOMAIN r

add_polygon_to_placemark(placemark, r, den) ==
    IF HasZ(r) THEN Raise("ValueError")
    ELSE Return([placemark EXCEPT
            !.multigeometry = 1,
            !.polygons = Append(@, [outerBoundaryIs |-> CoordinateTokens(r, den)])])

\* The rest of the loop of lines 112-113 after the call for one polygon.
RECURSIVE AddPolygons(_, _, _)
AddRest(first, parts, den) ==
    IF first.raised THEN first ELSE AddPolygons(first.val, parts, den)

\* Lines 112-113: the loop over the polygons of a MultiPolygon.
AddPolygons(placemark, parts, den) ==
    IF parts = <<>> THEN Return(placemark)
    ELSE AddRest(add_polygon_to_placemark(placemark, Head(parts), den),
                 Tail(parts), den)

\* Lines 92-113: the placemark of one row.  The geometry is read through
\* geom.geom_type, which raises for a missing geometry; a geometry that is
\* neither Polygon nor MultiPolygon adds nothing.
Placemark(df, row) ==
    LET cols == SelectRows(df.columns,
                    [i \in 1..Len(df.columns) |-> df.columns[i] # "geometry"])
        empty == [name |-> IF HasColumn(df, "chiban")
                           THEN [str |-> row.chiban, fallback |-> FALSE, idx |-> 0]
                           ELSE [str |-> "chiban_", fallback |-> TRUE, idx |-> row.idx],
                  description |-> [i \in 1..Len(cols) |-> <<cols[i], Cell(row, cols[i])>>],
                  styleUrl |-> "#PolygonStyle",
                  multigeometry |-> 0,
                  polygons |-> <<>>]
        geom == row.geometry
    IN  IF geom.type = "None" THEN Raise("AttributeError")
        ELSE IF geom.type = "Polygon"
        THEN add_polygon_to_placemark(empty, geom.parts[1], geom.den)
        ELSE IF geom.type = "MultiPolygon"
        THEN AddPolygons(empty, geom.parts, geom.den)
        ELSE Return(empty)

\* Lines 91-113: the placemarks of the rows in order, or the first
\* exception.
RECURSIVE Placemarks(_, _)
Placemarks(df, rows) ==
    IF rows = <<>> THEN Return(<<>>)
    ELSE LET first == Placemark(df, Head(rows))
         IN  IF first.raised THEN first
             ELSE LET rest == Placemarks(df, Tail(rows))
                  IN  IF rest.raised THEN rest
                      ELSE Return(<<first.val>> \o rest.val)

\* Lines 69-118: the body of the try block.  to_crs raises for a frame
\* without CRS.
create_kml_body(df, name) ==
    IF df.none THEN Raise("AttributeError")
    ELSE IF ~df.crs THEN Raise("ValueError")
    ELSE LET pms == Placemarks(df, df.rows)
         IN  IF pms.raised THEN pms
             ELSE Return([none |-> FALSE, name |-> name, placemarks |-> pms.val])

\* Lines 120-122: except Exception: st.error(...); return None.  reported
\* says whether st.error was called.
except_report(body) ==
    IF body.raised THEN [reported |-> TRUE, kml |-> NoKml]
    ELSE [reported |-> FALSE, kml |-> body.val]

\* Lines 66-122.
create_kml_from_geodataframe(df, name) ==
    except_report(create_kml_body(df, name))

KmlCall(df, name) == [fn |-> "create_kml", df |-> df, name |-> name]

\* create_kml_from_geodataframe(call.df, call.name) is called once.
CallKml ==
    /\ call.fn = "create_kml"
    /\ ~ret.done
    /\ ret' = Called(Return(create_kml_from_geodataframe(call.df, call.name)),
                     LibDefault)
    /\ UNCHANGED <<call, session>>

\* A polygon whose vertices carry a third coordinate.
GeomZ(u) == Polygon([x1 |-> 0, y1 |-> 0, x2 |-> 2 * u, y2 |-> 2 * u, z |-> 0])

\* Rows for the serializer: a Polygon, a MultiPolygon, a Polygon with
\* three-dimensional vertices, a Point and a missing geometry, with and
\* without lot number.
KmlRowMenu ==
    {RowOf("A", None, None, c, g) :
        c \in {"1174", None},
        g \in {GeomA(1), GeomSplit(1), GeomZ(1), Point(1, 1), NoGeom}}

InitKml ==
    /\ SessionIdle
    /\ call \in {KmlCall(df, "name") :
                    df \in Datasets({{}, {"chiban"}}, BOOLEAN, KmlRowMenu)}
    /\ ret = NotCalled

SpecKml == InitKml /\ [][CallKml]_vars

\* C2 as stated: create_kml_from_geodataframe reports an error and returns
\* None whenever a row of the subset has a geometry of a type other than
\* Polygon or MultiPolygon.  Violated: a Point row gets a placemark without
\* geometry and the document is returned.
C2_AsStated ==
    /\ call.fn = "create_kml" /\ ret.done
    /\ \E i \in 1..Len(call.df.rows) :
          call.df.rows[i].geometry.type \notin {"Polygon", "MultiPolygon", "None"}
    => ret.out.reported /\ ret.out.kml.none

\* create_kml_from_geodataframe was called on a subset with a declared CRS
\* whose rows all have a Polygon or MultiPolygon geometry.
KmlOfPolygonRows ==
    /\ call.fn = "create_kml" /\ ret.done
    /\ call.df.crs
    /\ \A i \in 1..Len(call.df.rows) :
          call.df.rows[i].geometry.type \in {"Polygon", "MultiPolygon"}

\* Placemark pm was made from row: it carries the row's lot number (or the
\* positional name), one MultiGeometry element, and in it one Polygon
\* element per polygon of the row's geometry, in order, each with one
\* outer ring of one token per vertex of that polygon's exterior, the
\* token being the transformed vertex followed by the elevation 0.
PlacemarkOfRow(pm, row) ==
    /\ pm.name = IF HasColumn(call.df, "chiban")
                 THEN [str |-> row.chiban, fallback |-> FALSE, idx |-> 0]
                 ELSE [str |-> "chiban_", fallback |-> TRUE, idx |-> row.idx]
    /\ pm.multigeometry = 1
    /\ Len(pm.polygons) = Len(row.geometry.parts)
    /\ row.geometry.type = "Polygon" => Len(pm.polygons) = 1
    /\ \A k \in 1..Len(pm.polygons) :
          LET ring == pm.polygons[k].outerBoundaryIs
              exterior == ExteriorCoords(row.geometry.parts[k], row.geometry.den)
          IN  /\ DOMAIN pm.polygons[k] = {"outerBoundaryIs"}
              /\ Len(ring) = Len(exterior)
              /\ \A v \in 1..Len(ring) :
                    ring[v].xy = exterior[v] /\ ring[v].z = 0

\* The document has exactly one placemark per row of the subset, in row
\* order.
OnePlacemarkPerRow ==
    /\ ~ret.out.kml.none
    /\ Len(ret.out.kml.placemarks) = Len(call.df.rows)
    /\ \A i \in 1..Len(call.df.rows) :
          PlacemarkOfRow(ret.out.kml.placemarks[i], call.df.rows[i])

\* C11 as stated: for every subset of Polygon/MultiPolygon rows the
\* serializer emits exactly one placemark per row in row order; a Polygon
\* row's placemark has one Polygon element with one outer ring, a
\* MultiPolygon row's one Polygon element per constituent polygon in a
\* single MultiGeometry container; each ring has as many coordinate tokens
\* as the polygon's exterior has vertices, each ending in the elevation 0.
\* Violated already among the subsets with a declared CRS: for a polygon
\* whose vertices carry a third coordinate no document is returned.
C11_AsStated == KmlOfPolygonRows => OnePlacemarkPerRow

-----------------------------------------------------------------------------
(* main(): one run of the script per user interaction.                     *)

\* Line 376: the fixed search radius.
range_m == 61

\* A value stored under a key of st.session_state.
Stored(v) == [none |-> FALSE, key |-> TRUE, value |-> v]

\* Lines 32-64: load_shapefile_from_url.  remote is what the request and
\* the files behind it turn out to be: the request fails, the body is a
\* ZIP archive with or without a .shp member, or no archive at all (then
\* it is read as a .shp file); reading a .shp file gives a dataset or
\* fails.  Every failure is raised again as Exception.
load_shapefile_from_url(url, remote) ==
    IF remote.kind = "request_failed" THEN Raise("Exception")
    ELSE IF remote.kind = "zip_without_shp" THEN Raise("Exception")
    ELSE IF remote.readable THEN Return(remote.df)
    ELSE Raise("Exception")

\* The load step leaving no dataset behind when it fails.
LoadFromUrl_clearing(old, clicked, url, remote) ==
    IF clicked /\ url # ""
    THEN LET r == load_shapefile_from_url(url, remote)
         IN  IF r.raised THEN [gdf |-> NoDF, load |-> "failed"]
             ELSE [gdf |-> r.val, load |-> "ok"]
    ELSE [gdf |-> old, load |-> "none"]

\* Lines 290-297 and 308-316: the button is clicked and the URL (or every
\* GitHub field) is filled in: the dataset is stored if the load returns,
\* an error shown if it raises.
LoadFromUrl(old, clicked, url, remote) ==
    IF clicked /\ url # ""
    THEN LET r == load_shapefile_from_url(url, remote)
         IN  IF r.raised THEN [gdf |-> old, load |-> "failed"]
             ELSE [gdf |-> r.val, load |-> "ok"]
    ELSE [gdf |-> old, load |-> "none"]

\* Lines 265-282: the uploaded archive, if any, is unpacked and its first
\* .shp member read; a bad archive or unreadable file is caught, a missing
\* .shp member reported.
LoadLocalFile(old, uploaded_file) ==
    IF uploaded_file.kind = "none" THEN [gdf |-> old, load |-> "none"]
    ELSE IF uploaded_file.kind = "bad_zip" THEN [gdf |-> old, load |-> "failed"]
    ELSE IF uploaded_file.kind = "zip_without_shp" THEN [gdf |-> old, load |-> "failed"]
    ELSE IF uploaded_file.readable THEN [gdf |-> uploaded_file.df, load |-> "ok"]
    ELSE [gdf |-> old, load |-> "failed"]

\* Lines 329-332 and 340-343: the entries of a select box filled from
\* get_options, behind the entries in first; no box, so no entries, when
\* get_options returns None or an empty list.
SelectBox(first, options) ==
    IF ~options.none /\ options.values # <<>> THEN first \o options.values
    ELSE <<>>

\* Lines 327-335: the entries of the district select box.
SelectOaza(df) ==
    IF HasColumn(df, "oaza")
    THEN SelectBox(<<>>, get_options(df, "oaza", None, None))
    ELSE <<>>

\* Lines 338-345: the entries of the sub-district select box.
SelectChome(df, selected_oaza) ==
    IF Truthy(selected_oaza)
    THEN SelectBox(<<Sentinel>>, get_options(df, "chome", "oaza", selected_oaza))
    ELSE <<>>

\* Lines 365-370: the entries of the sub-sub-district select box, made
\* from the rows left by the filter.
KoazaBox(has_column, filtered_gdf) ==
    IF has_column /\ Len(filtered_gdf) > 0
    THEN <<Sentinel>> \o sorted(unique(Column(filtered_gdf, "koaza")))
    ELSE <<>>

\* Lines 348-370: the sub-sub-district select box.  The koaza column is
\* read (lines 357, 362) before its presence is tested (line 365): without
\* it the read raises KeyError.
SelectKoaza(df, selected_oaza, selected_chome) ==
    IF Truthy(selected_oaza)
    THEN IF ~HasColumn(df, "koaza") THEN Raise("KeyError")
         ELSE Return(KoazaBox(HasColumn(df, "koaza"),
                SelectRows(df.rows,
                    [i \in 1..Len(df.rows) |->
                        /\ Eq(df.rows[i].oaza, selected_oaza)
                        /\ (Truthy(selected_chome) /\ selected_chome # Sentinel
                              => Eq(df.rows[i].chome, selected_chome))
                        /\ NotNa(df.rows[i].koaza)])))
    ELSE Return(<<>>)

\* The entry selected in a select box: one of its entries; None where no
\* box is shown (lines 326, 338, 348).
Picks(entries) == IF entries = <<>> THEN {None} ELSE Range(entries)

\* Lines 394-399: the parts of the export file name.
FileName(selected_oaza, selected_chome, selected_koaza, chiban) ==
    <<selected_oaza>>
    \o (IF Truthy(selected_chome) /\ selected_chome # Sentinel
        THEN <<selected_chome>> ELSE <<>>)
    \o (IF Truthy(selected_koaza) /\ selected_koaza # Sentinel
        THEN <<selected_koaza>> ELSE <<>>)
    \o <<chiban>>

\* Line 400: "_".join(file_name_parts) gives the file name, and raises
\* TypeError for a part that is not a string.
join(file_name_parts) ==
    IF \A i \in 1..Len(file_name_parts) : IsStr(file_name_parts[i])
    THEN Return(file_name_parts)
    ELSE Raise("TypeError")

\* What the user does in one run besides loading: the entries selected in
\* the three select boxes, the lot number typed, whether the extraction
\* button is clicked.
Inputs(selected_oaza, selected_chome, selected_koaza, chiban, clicked) ==
    [selected_oaza |-> selected_oaza, selected_chome |-> selected_chome,
     selected_koaza |-> selected_koaza, chiban |-> chiban, clicked |-> clicked]

\* Lines 387-400: the results are stored only when both subsets are
\* returned: first the two subsets (lines 390-391), then the file name
\* (line 400), unless joining its parts raises.
StoreResults(ss, r, name) ==
    IF ~r.target.none /\ ~r.overlay.none
    THEN IF name.raised
         THEN [ss EXCEPT !.target_gdf = Stored(r.target),
                         !.overlay_gdf = Stored(r.overlay),
                         !.extract = "stored",
                         !.fault = name.err]
         ELSE [ss EXCEPT !.target_gdf = Stored(r.target),
                         !.overlay_gdf = Stored(r.overlay),
                         !.file_name = Stored(name.val),
                         !.extract = "stored"]
    ELSE [ss EXCEPT !.extract =
             IF r.message.head = MsgNoMatch THEN "no_match" ELSE "error"]

\* Lines 380-402: the extraction button.
ExtractStep(ss, in, lib) ==
    IF ~in.clicked THEN ss
    ELSE IF ~(Truthy(in.selected_oaza) /\ Truthy(in.chiban))
    THEN [ss EXCEPT !.extract = "refused"]
    ELSE StoreResults(ss,
            extract_data(ss.gdf, in.selected_oaza, in.selected_chome,
                         in.selected_koaza, in.chiban, range_m, lib).val,
            join(FileName(in.selected_oaza, in.selected_chome,
                          in.selected_koaza, in.chiban)))

\* Nothing offered for download.
NoDownload == [shown |-> FALSE, target_kml |-> NoKml, overlay_kml |-> NoKml,
               name |-> <<>>]

\* Lines 447-497: the download section, reached unless an exception has
\* ended the run, and shown once both results are stored (line 448): each
\* subset is serialized under the stored file name (a failure is reported,
\* not raised).  Reading a file name that was never stored (line 458)
\* raises AttributeError.
DownloadStep(ss) ==
    IF ss.fault # "" THEN ss
    ELSE IF ss.target_gdf.key /\ ss.overlay_gdf.key
    THEN IF ~ss.file_name.key THEN [ss EXCEPT !.fault = "AttributeError"]
         ELSE
         [ss EXCEPT !.download =
            [shown |-> TRUE,
             target_kml |-> create_kml_from_geodataframe(ss.target_gdf.value,
                                <<ss.file_name.value, "target">>).kml,
             overlay_kml |-> create_kml_from_geodataframe(ss.overlay_gdf.value,
                                <<ss.file_name.value, "neighbors">>).kml,
             name |-> ss.file_name.value]]
    ELSE ss

\* Lines 318-517: the part of the run after the select boxes.  ss holds
\* the session state after the load step and what the run has done so far;
\* koaza is what the sub-sub-district select box did.  An uncaught
\* exception ends the run and keeps what is stored so far.
AfterLoad(ss, in, koaza, lib) ==
    IF koaza.raised
    THEN [ss EXCEPT !.selected_oaza = in.selected_oaza, !.fault = koaza.err]
    ELSE DownloadStep(ExtractStep([ss EXCEPT !.selected_oaza = in.selected_oaza],
                                  in, lib))

\* The run's state when the load step is over: the session state and what
\* the run has done.
RunState(loaded, uploaded_file) ==
    [gdf |-> loaded.gdf, target_gdf |-> target_gdf, overlay_gdf |-> overlay_gdf,
     file_name |-> file_name, load |-> loaded.load,
     extract |-> "none", fault |-> "", selected_oaza |-> None,
     download |-> NoDownload, uploaded_file |-> uploaded_file]

\* The run ends: the session state is what the run left in it.
Commit(ss) ==
    /\ gdf' = ss.gdf
    /\ target_gdf' = ss.target_gdf
    /\ overlay_gdf' = ss.overlay_gdf
    /\ file_name' = ss.file_name
    /\ pass' = [ran |-> TRUE, load |-> ss.load, extract |-> ss.extract,
                fault |-> ss.fault, selected_oaza |-> ss.selected_oaza,
                shown |-> ss.download.shown, uploaded_file |-> ss.uploaded_file]
    /\ UNCHANGED <<call, ret>>

\* The parcels of the datasets loaded in main, on squares of side 80.
MainRows ==
    <<RowOf("A", "A", "A", "1174", GeomA(40)),
      RowOf("A", "B", None, "1174", GeomSplit(40)),
      RowOf("B", None, None, "1174", GeomEast(40))>>

\* The files the user has: complete, without one of the columns, without
\* CRS, with numbers for district names.
MainDatasets ==
    {Dataset(ColumnsWithout({}), TRUE, MainRows),
     Dataset(ColumnsWithout({"koaza"}), TRUE, MainRows),
     Dataset(ColumnsWithout({"chome"}), TRUE, MainRows),
     Dataset(ColumnsWithout({"chiban"}), TRUE, SubSeq(MainRows, 1, 1)),
     Dataset(ColumnsWithout({}), FALSE, SubSeq(MainRows, 1, 1)),
     Dataset(ColumnsWithout({}), TRUE,
             <<RowOf(Number7, None, None, "1174", GeomA(40))>>)}

NoFile == [kind |-> "none", readable |-> FALSE, df |-> NoDF]

\* What an upload or a download can turn out to be.
FileMenu(kinds) ==
    {[kind |-> k, readable |-> FALSE, df |-> NoDF] : k \in kinds}
    \cup {[kind |-> "zip", readable |-> TRUE, df |-> d] : d \in MainDatasets}

\* The rest of a run whose load step gave loaded: the user's selections,
\* the lot number typed (the default while the extraction button is not
\* clicked) and the click on the extraction button.  One interaction starts
\* one run: a run started by a load button or by a change of the uploaded
\* file (other_widget) is not started by the extraction button.  The select
\* boxes and the text field keep their values from run to run, so the run
\* of the click sees the selections made in the runs before it.
Run(loaded, other_widget, uploaded_file) ==
    \E ss \in {RunState(loaded, uploaded_file)} :
        IF ss.gdf.none THEN Commit(ss)
        ELSE
        \E selected_oaza \in Picks(SelectOaza(ss.gdf)) :
        \E selected_chome \in Picks(SelectChome(ss.gdf, selected_oaza)) :
        \E koaza \in {SelectKoaza(ss.gdf, selected_oaza, selected_chome)} :
        \E selected_koaza \in IF koaza.raised THEN {None} ELSE Picks(koaza.val) :
        \E clicked \in IF other_widget THEN {FALSE} ELSE BOOLEAN :
        \E chiban \in IF clicked THEN {"1174", "9999", ""} ELSE {"1174"} :
        \E lib \in IF clicked /\ ~ss.gdf.crs THEN LibMenu ELSE {LibDefault} :
        \E end \in {AfterLoad(ss, Inputs(selected_oaza, selected_chome,
                                         selected_koaza, chiban, clicked),
                              koaza, lib)} :
            Commit(end)

\* A run with the local file source selected: the file in the uploader, if
\* any, is read again in every run, the one it was in the run before or
\* one the user has just put there.
RunLocal ==
    \E uploaded_file \in {NoFile} \cup FileMenu({"bad_zip", "zip_without_shp"}) :
        Run(LoadLocalFile(gdf, uploaded_file),
            uploaded_file # pass.uploaded_file, uploaded_file)

\* A run with the URL source selected: the load button is clicked with or
\* without a URL typed, or another widget is used.
RunUrl ==
    \E clicked \in BOOLEAN :
    \E web_url \in IF clicked THEN {"", "https://example.com/data.zip"} ELSE {""} :
    \E remote \in IF clicked /\ web_url # ""
                  THEN FileMenu({"request_failed", "zip_without_shp", "shp"})
                  ELSE {NoFile} :
        Run(LoadFromUrl(gdf, clicked, web_url, remote), clicked, NoFile)

\* A run with the GitHub source selected: the URL is built from the fields
\* and loaded when owner, repository and path are all filled in.
RunGithub ==
    \E clicked \in BOOLEAN :
    \E filled \in IF clicked THEN BOOLEAN ELSE {FALSE} :
    \E remote \in IF clicked /\ filled
                  THEN FileMenu({"request_failed", "zip_without_shp", "shp"})
                  ELSE {NoFile} :
        LET github_url ==
                IF filled THEN "https://github.com/owner/repo/blob/main/data.zip"
                ELSE ""
        IN  Run(LoadFromUrl(gdf, clicked, github_url, remote), clicked, NoFile)

\* Lines 28-30: a new session holds no dataset and no results.
Init ==
    /\ gdf = NoDF
    /\ target_gdf = NoKey
    /\ overlay_gdf = NoKey
    /\ file_name = NoKey
    /\ pass = NoPass
    /\ call = [fn |-> "main"]
    /\ ret = NotCalled

Next == RunLocal \/ RunUrl \/ RunGithub

Spec == Init /\ [][Next]_vars

\* The loaded dataset lacks one of the expected attribute columns.
LacksColumn ==
    \E c \in {"chome", "koaza", "chiban"} : ~HasColumn(gdf, c)

\* C5 as stated: when the loaded dataset lacks an expected attribute
\* column while the district column is present and a district is selected,
\* the run of main ends without an uncaught exception.
C5_AsStated ==
    /\ pass.ran /\ ~gdf.none
    /\ HasColumn(gdf, "oaza") /\ Truthy(pass.selected_oaza)
    /\ LacksColumn
    => pass.fault = ""

\* C8: a run whose load fails leaves the loaded dataset as it was, and a
\* run whose extraction ends in no-match or error leaves the loaded
\* dataset, the stored target and neighbor results and the stored file
\* name as they were.
C8_FailureKeepsSessionState ==
    [][/\ pass'.load = "failed" => gdf' = gdf
       /\ pass'.extract \in {"no_match", "error"} =>
              /\ gdf' = gdf
              /\ target_gdf' = target_gdf
              /\ overlay_gdf' = overlay_gdf
              /\ file_name' = file_name]_vars

\* A run whose load and whose extraction both failed has ended with a
\* dataset and results of earlier runs in the session.
C8_Witness ==
    /\ pass.load = "failed" /\ pass.extract \in {"no_match", "error"}
    /\ ~gdf.none
    /\ target_gdf.key /\ overlay_gdf.key /\ file_name.key

\* The stored file name is the one of the stored target subset: it starts
\* with the district and ends with the lot number of every stored target
\* row.
FileNameOfTarget ==
    \A i \in 1..Len(target_gdf.value.rows) :
        /\ file_name.value[1] = target_gdf.value.rows[i].oaza
        /\ file_name.value[Len(file_name.value)] = target_gdf.value.rows[i].chiban

\* C12 as stated: over any sequence of loads and extractions the stored
\* target subset, the stored neighbor subset and the stored file name are
\* all absent or all present, and when present the file name is the one
\* written by the extraction that wrote the target subset, so the download
\* section never fails on, or shows, a file name that is not the stored
\* target subset's.  Violated: an extraction whose file name cannot be
\* joined stores the two subsets and stops before the file name.
C12_AsStated ==
    /\ target_gdf.key <=> overlay_gdf.key
    /\ overlay_gdf.key <=> file_name.key
    /\ target_gdf.key /\ file_name.key => FileNameOfTarget
    /\ pass.fault # "AttributeError"

=============================================================================
